---------------------------- MODULE Spec2Model ----------------------------
(***************************************************************************)
(* Model of plat/sun50iw1p1/plat_pm.c: the PSCI platform power-management  *)
(* handlers of the sun50iw1p1 port of the ARM Trusted Firmware.            *)
(*                                                                         *)
(* Every core runs the handlers in its own EL3 context.  A handler is      *)
(* modelled statement by statement: one action per call the handler makes  *)
(* into its collaborators (GIC driver, console driver, SoC actuators,      *)
(* system registers, MMIO).  Every such call is appended to the per-core   *)
(* `trace` of the invocation in progress.                                  *)
(*                                                                         *)
(* 32-bit unsigned C values are kept as their 32-bit two's-complement      *)
(* patterns (so the sentinel PSCI_INVALID_DATA is -1) and are compared     *)
(* with the unsigned order U32Lt, as the C comparisons of a uint32_t do.   *)
(***************************************************************************)
EXTENDS Integers, Sequences, FiniteSets, TLC

VARIABLES
    pc,            \* [core -> position inside the handler being run]
    call,          \* [core -> the handler being run and its arguments]
    fw,            \* [core -> what the PSCI framework reports for the transition]
    gate,          \* [core -> outcome of the last sunxi_do_plat_actions() call]
    scr,           \* [core -> the local `scr` of sunxi_affinst_standby]
    ret,           \* [core -> value returned by the handler]
    trace,         \* [core -> calls made by the invocation, in order]
    scr_el3,       \* [core -> the SCR_EL3 system register]
    gicc_enabled,  \* [core -> GIC CPU interface enabled]
    console_up,    \* console driver initialised
    plat_ops,      \* the framework's *plat_ops: "null" or "sunxi_ops"
    plat_console_lock  \* the bakery lock: "uninit" or "init"

vars == <<pc, call, fw, gate, scr, ret, trace, scr_el3, gicc_enabled, console_up,
          plat_ops, plat_console_lock>>

hw == <<scr_el3, gicc_enabled, console_up>>

\* What platform_setup_pm sets up.
pm == <<plat_ops, plat_console_lock>>

-----------------------------------------------------------------------------
(* Program constants (arch.h, psci.h, errno.h).                              *)

MPIDR_AFFLVL_MASK == 255
MPIDR_AFF0_SHIFT == 0
MPIDR_AFF1_SHIFT == 8
MPIDR_AFFLVL0 == 0
MPIDR_MAX_AFFLVL == 2
PSCI_STATE_ON == 0
PSCI_STATE_OFF == 1
PSCI_INVALID_DATA == -1
PSCI_E_SUCCESS == 0
PSCI_E_INVALID_PARAMS == -2
EAGAIN == 11
SCR_IRQ_BIT == 2
PSTATE_AFF_LVL_SHIFT == 24
PSTATE_AFF_LVL_MASK == 3

\* The watchdog registers and values written by sunxi_system_reset.
WDOG_CFG_REG == 29494452     \* 0x01c20cb4
WDOG_MODE_REG == 29494456    \* 0x01c20cb8
WDOG_CTRL_REG == 29494448    \* 0x01c20cb0
WDOG_KEY == 2647             \* 0xa57

-----------------------------------------------------------------------------
(* Bounds of the model.                                                      *)

\* Affinity levels passed by the framework: 0..MaxAffLvlInput (one beyond
\* MPIDR_MAX_AFFLVL, so that the first assertion of the gate can fail).
MaxAffLvlInput == 3
\* Secure entry points passed to on/suspend: 1..MaxEntry.
MaxEntry == 2

-----------------------------------------------------------------------------
(* Bit operations of C on non-negative values.                               *)

RECURSIVE BitAnd(_, _)
BitAnd(a, b) ==
    IF a = 0 \/ b = 0 THEN 0
    ELSE (a % 2) * (b % 2) + 2 * BitAnd(a \div 2, b \div 2)

RECURSIVE BitOr(_, _)
BitOr(a, b) ==
    IF a = 0 THEN b
    ELSE IF b = 0 THEN a
    ELSE (IF a % 2 = 1 \/ b % 2 = 1 THEN 1 ELSE 0) + 2 * BitOr(a \div 2, b \div 2)

ShiftR(a, n) == a \div (2 ^ n)

ShiftL(a, n) == a * (2 ^ n)

\* Unsigned order on 32-bit patterns held as signed integers.
U32Lt(a, b) == IF (a < 0) = (b < 0) THEN a < b ELSE b < 0

U32Le(a, b) == a = b \/ U32Lt(a, b)

-----------------------------------------------------------------------------
(* Cores, inputs and records.                                                *)

\* An affinity address (MPIDR) with the given AFF1 and AFF0 fields.
Mpidr(cluster, cpu) == ShiftL(cluster, MPIDR_AFF1_SHIFT) + ShiftL(cpu, MPIDR_AFF0_SHIFT)

\* The cores of the model: the primary core, a secondary core of its cluster
\* and core 0 of a second cluster.
Cores == {Mpidr(0, 0), Mpidr(0, 1), Mpidr(1, 0)}

PrimaryCore == Mpidr(0, 0)

\* Affinity addresses handed to the handlers; the last one has AFF2 = 1.
MpidrInputs == {Mpidr(0, 0), Mpidr(0, 1), Mpidr(1, 0), Mpidr(1, 2), 65536 + Mpidr(0, 2)}

\* uint32_t afflvl arguments, 0xffffffff included.
AffLvlInputs == (0 .. MaxAffLvlInput) \cup {-1}

\* uint32_t state arguments: ON, OFF and PSCI_STATE_SUSPEND (3).
StateInputs == {PSCI_STATE_ON, PSCI_STATE_OFF, 3}

\* What psci_get_max_phys_off_afflvl() and psci_get_suspend_afflvl() can
\* report: a level or PSCI_INVALID_DATA.
FwLvls == (0 .. MPIDR_MAX_AFFLVL) \cup {PSCI_INVALID_DATA}

EntryInputs == 1 .. MaxEntry

\* power_state arguments of standby: levels 0..3 in bits [25:24], the
\* state-type bit 16, and a reserved bit above the level field.
PowerStateInputs ==
    {0, ShiftL(1, 16), ShiftL(1, PSTATE_AFF_LVL_SHIFT), ShiftL(2, PSTATE_AFF_LVL_SHIFT),
     ShiftL(3, PSTATE_AFF_LVL_SHIFT) + ShiftL(1, 16), ShiftL(4, PSTATE_AFF_LVL_SHIFT)}

\* Values SCR_EL3 may hold when a handler is entered: all clear, IRQ bit
\* already set, and 0x431 (NS | RES1 | RW).
ScrValues == {0, SCR_IRQ_BIT, 1073}

WakeCauses == {"irq", "fiq", "event"}

Ops == {"on", "on_finish", "standby", "off", "suspend", "suspend_finish",
        "system_off", "system_reset"}

Ev(name, a, b) == [ev |-> name, a |-> a, b |-> b]

NoCall == [op |-> "none", mpidr |-> 0, sec_entrypoint |-> 0, afflvl |-> 0,
           state |-> 0, power_state |-> 0]

NoFw == [max_phys_off_afflvl |-> PSCI_INVALID_DATA, suspend_afflvl |-> PSCI_INVALID_DATA]

NoGate == [called |-> FALSE, asserted |-> FALSE, rc |-> 0]

\* Does the invocation's trace hold a call of this name?
Has(t, name) == \E i \in 1 .. Len(t) : t[i].ev = name

\* Position of the first call of this name in the trace (0 if none).
Pos(t, name) == IF Has(t, name) THEN CHOOSE i \in 1 .. Len(t) : t[i].ev = name /\ \A j \in 1 .. (i - 1) : t[j].ev # name ELSE 0

-----------------------------------------------------------------------------
(* Initial state: platform_setup_pm has run, every core is outside the       *)
(* handlers, SCR_EL3 holds the value the EL3 runtime programmed on every     *)
(* core, the GIC CPU interfaces are enabled and the console is up.           *)

Init ==
    /\ pc = [c \in Cores |-> "idle"]
    /\ call = [c \in Cores |-> NoCall]
    /\ fw = [c \in Cores |-> NoFw]
    /\ gate = [c \in Cores |-> NoGate]
    /\ scr = [c \in Cores |-> 0]
    /\ ret = [c \in Cores |-> 0]
    /\ trace = [c \in Cores |-> << >>]
    /\ \E v \in ScrValues : scr_el3 = [c \in Cores |-> v]
    /\ gicc_enabled = [c \in Cores |-> TRUE]
    /\ console_up = TRUE
    /\ plat_ops = "sunxi_ops"
    /\ plat_console_lock = "init"

-----------------------------------------------------------------------------
(* Steps shared by the handlers.                                             *)

\* The statement at `from` makes call `e` and control moves to `to`.
Step(c, from, to, e) ==
    /\ pc[c] = from
    /\ pc' = [pc EXCEPT ![c] = to]
    /\ trace' = [trace EXCEPT ![c] = Append(@, e)]

\* The handler returns `r` to the framework.
Done(c, from, r) ==
    /\ pc[c] = from
    /\ pc' = [pc EXCEPT ![c] = "done"]
    /\ ret' = [ret EXCEPT ![c] = r]

\* The framework invokes handler `op` on core c.
Enter(c, op, first, mpidr, sec, afflvl, state, ps, f) ==
    /\ pc[c] = "idle"
    /\ plat_ops = "sunxi_ops"
    /\ pc' = [pc EXCEPT ![c] = first]
    /\ call' = [call EXCEPT ![c] = [op |-> op, mpidr |-> mpidr, sec_entrypoint |-> sec,
                                    afflvl |-> afflvl, state |-> state, power_state |-> ps]]
    /\ fw' = [fw EXCEPT ![c] = f]
    /\ UNCHANGED <<pm, gate, scr, ret, trace, hw>>

\* The framework takes the handler's result; the core leaves the handler.
Return(c) ==
    /\ pc[c] = "done"
    /\ pc' = [pc EXCEPT ![c] = "idle"]
    /\ call' = [call EXCEPT ![c] = NoCall]
    /\ fw' = [fw EXCEPT ![c] = NoFw]
    /\ gate' = [gate EXCEPT ![c] = NoGate]
    /\ scr' = [scr EXCEPT ![c] = 0]
    /\ ret' = [ret EXCEPT ![c] = 0]
    /\ trace' = [trace EXCEPT ![c] = << >>]
    /\ UNCHANGED <<pm, hw>>

-----------------------------------------------------------------------------
(* Affinity Domain Identity: the decoding at the head of sunxi_affinst_on    *)
(* and sunxi_power_down_common.                                              *)

cpu_nr(mpidr) == BitAnd(ShiftR(mpidr, MPIDR_AFF0_SHIFT), MPIDR_AFFLVL_MASK)

\* Variant: the cluster index is taken from the AFF0 field.
cluster_nr_from_aff0(mpidr) == BitAnd(ShiftR(mpidr, MPIDR_AFF0_SHIFT), MPIDR_AFFLVL_MASK)

cluster_nr(mpidr) == BitAnd(ShiftR(mpidr, MPIDR_AFF1_SHIFT), MPIDR_AFFLVL_MASK)

-----------------------------------------------------------------------------
(* sunxi_do_plat_actions: the Action Gate.  The result says whether an       *)
(* assertion failed and, if none did, the value returned.                    *)

\* Variant: acts at every level from the maximum-physical-off level upwards.
sunxi_do_plat_actions_at_or_above(afflvl, state, f) ==
    IF ~U32Le(afflvl, MPIDR_MAX_AFFLVL)
    THEN [called |-> TRUE, asserted |-> TRUE, rc |-> 0]
    ELSE IF state # PSCI_STATE_OFF
    THEN [called |-> TRUE, asserted |-> FALSE, rc |-> -EAGAIN]
    ELSE IF f.max_phys_off_afflvl = PSCI_INVALID_DATA
    THEN [called |-> TRUE, asserted |-> TRUE, rc |-> 0]
    ELSE IF ~U32Le(f.max_phys_off_afflvl, f.suspend_afflvl)
    THEN [called |-> TRUE, asserted |-> TRUE, rc |-> 0]
    ELSE IF U32Lt(afflvl, f.max_phys_off_afflvl)
    THEN [called |-> TRUE, asserted |-> FALSE, rc |-> -EAGAIN]
    ELSE [called |-> TRUE, asserted |-> FALSE, rc |-> 0]

\* Variant: the assertion of line 71 is missing.
sunxi_do_plat_actions_no_suspend_assert(afflvl, state, f) ==
    IF ~U32Le(afflvl, MPIDR_MAX_AFFLVL)
    THEN [called |-> TRUE, asserted |-> TRUE, rc |-> 0]
    ELSE IF state # PSCI_STATE_OFF
    THEN [called |-> TRUE, asserted |-> FALSE, rc |-> -EAGAIN]
    ELSE IF f.max_phys_off_afflvl = PSCI_INVALID_DATA
    THEN [called |-> TRUE, asserted |-> TRUE, rc |-> 0]
    ELSE IF afflvl # f.max_phys_off_afflvl
    THEN [called |-> TRUE, asserted |-> FALSE, rc |-> -EAGAIN]
    ELSE [called |-> TRUE, asserted |-> FALSE, rc |-> 0]

sunxi_do_plat_actions(afflvl, state, f) ==
    IF ~U32Le(afflvl, MPIDR_MAX_AFFLVL)
    THEN [called |-> TRUE, asserted |-> TRUE, rc |-> 0]
    ELSE IF state # PSCI_STATE_OFF
    THEN [called |-> TRUE, asserted |-> FALSE, rc |-> -EAGAIN]
    ELSE IF f.max_phys_off_afflvl = PSCI_INVALID_DATA
    THEN [called |-> TRUE, asserted |-> TRUE, rc |-> 0]
    ELSE IF ~U32Le(f.max_phys_off_afflvl, f.suspend_afflvl)
    THEN [called |-> TRUE, asserted |-> TRUE, rc |-> 0]
    ELSE IF afflvl # f.max_phys_off_afflvl
    THEN [called |-> TRUE, asserted |-> FALSE, rc |-> -EAGAIN]
    ELSE [called |-> TRUE, asserted |-> FALSE, rc |-> 0]

\* A handler at `from` consults the gate: a failed assertion stops the core,
\* -EAGAIN makes the handler return PSCI_E_SUCCESS, 0 lets it go on at `to`.
GateStep(c, from, to) ==
    LET g == sunxi_do_plat_actions(call[c].afflvl, call[c].state, fw[c]) IN
    /\ pc[c] = from
    /\ gate' = [gate EXCEPT ![c] = g]
    /\ IF g.asserted
       THEN pc' = [pc EXCEPT ![c] = "assert_failed"] /\ UNCHANGED ret
       ELSE IF g.rc = -EAGAIN
       THEN pc' = [pc EXCEPT ![c] = "done"] /\ ret' = [ret EXCEPT ![c] = PSCI_E_SUCCESS]
       ELSE pc' = [pc EXCEPT ![c] = to] /\ UNCHANGED ret
    /\ UNCHANGED <<pm, call, fw, scr, trace, hw>>

-----------------------------------------------------------------------------
(* sunxi_affinst_on: the Power-Up Sequencer.                                 *)

\* Variant: the cluster level powers up too.
affinst_on_level_lax(c) ==
    /\ pc[c] = "on_91"
    /\ IF U32Lt(1, call[c].afflvl)
       THEN Done(c, "on_91", PSCI_E_SUCCESS)
       ELSE pc' = [pc EXCEPT ![c] = "on_94"] /\ UNCHANGED ret
    /\ UNCHANGED <<pm, call, fw, gate, scr, trace, hw>>

affinst_on_level(c) ==
    /\ pc[c] = "on_91"
    /\ IF call[c].afflvl # MPIDR_AFFLVL0
       THEN Done(c, "on_91", PSCI_E_SUCCESS)
       ELSE pc' = [pc EXCEPT ![c] = "on_94"] /\ UNCHANGED ret
    /\ UNCHANGED <<pm, call, fw, gate, scr, trace, hw>>

affinst_on_set_entry(c) ==
    /\ Step(c, "on_94", "on_96",
            Ev("sun50i_set_secondary_entry", call[c].sec_entrypoint, cpu_nr(call[c].mpidr)))
    /\ UNCHANGED <<pm, call, fw, gate, scr, ret, hw>>

affinst_on_power_up(c) ==
    /\ Step(c, "on_96", "done",
            Ev("sun50i_cpu_power_up", cluster_nr(call[c].mpidr), cpu_nr(call[c].mpidr)))
    /\ ret' = [ret EXCEPT ![c] = PSCI_E_SUCCESS]
    /\ UNCHANGED <<pm, call, fw, gate, scr, hw>>

-----------------------------------------------------------------------------
(* sunxi_affinst_on_finish: the Resume Finisher (also the tail of            *)
(* sunxi_affinst_suspend_finish).                                            *)

\* Variant: the Resume Finisher ignores the gate's -EAGAIN.
on_finish_gate_ignored(c) ==
    /\ pc[c] = "onfin_111"
    /\ gate' = [gate EXCEPT ![c] = sunxi_do_plat_actions(call[c].afflvl, call[c].state, fw[c])]
    /\ pc' = [pc EXCEPT ![c] = IF gate'[c].asserted THEN "assert_failed" ELSE "onfin_115"]
    /\ UNCHANGED <<pm, call, fw, scr, ret, trace, hw>>

on_finish_gate(c) == GateStep(c, "onfin_111", "onfin_115")

on_finish_smp_init(c) ==
    /\ Step(c, "onfin_115", "onfin_118", Ev("platform_smp_init", 0, 0))
    /\ UNCHANGED <<pm, call, fw, gate, scr, ret, hw>>

on_finish_cpuif_setup(c) ==
    /\ Step(c, "onfin_118", "onfin_119", Ev("arm_gic_cpuif_setup", 0, 0))
    /\ gicc_enabled' = [gicc_enabled EXCEPT ![c] = TRUE]
    /\ UNCHANGED <<pm, call, fw, gate, scr, ret, scr_el3, console_up>>

on_finish_distif_setup(c) ==
    /\ Step(c, "onfin_119", "done", Ev("arm_gic_pcpu_distif_setup", 0, 0))
    /\ ret' = [ret EXCEPT ![c] = PSCI_E_SUCCESS]
    /\ UNCHANGED <<pm, call, fw, gate, scr, hw>>

-----------------------------------------------------------------------------
(* sunxi_affinst_standby: the Standby Handler.                               *)

psci_get_pstate_afflvl(power_state) ==
    BitAnd(ShiftR(power_state, PSTATE_AFF_LVL_SHIFT), PSTATE_AFF_LVL_MASK)

\* Variant: only levels above the cluster level are rejected.
standby_level_lax(c) ==
    /\ pc[c] = "sb_133"
    /\ IF psci_get_pstate_afflvl(call[c].power_state) > 1
       THEN Done(c, "sb_133", PSCI_E_INVALID_PARAMS)
       ELSE pc' = [pc EXCEPT ![c] = "sb_142"] /\ UNCHANGED ret
    /\ UNCHANGED <<pm, call, fw, gate, scr, trace, hw>>

standby_level(c) ==
    /\ pc[c] = "sb_133"
    /\ IF psci_get_pstate_afflvl(call[c].power_state) # MPIDR_AFFLVL0
       THEN Done(c, "sb_133", PSCI_E_INVALID_PARAMS)
       ELSE pc' = [pc EXCEPT ![c] = "sb_142"] /\ UNCHANGED ret
    /\ UNCHANGED <<pm, call, fw, gate, scr, trace, hw>>

standby_read_scr(c) ==
    /\ Step(c, "sb_142", "sb_144", Ev("read_scr_el3", scr_el3[c], 0))
    /\ scr' = [scr EXCEPT ![c] = scr_el3[c]]
    /\ UNCHANGED <<pm, call, fw, gate, ret, hw>>

\* Variant: the IRQ bit is not OR-ed into the value written.
standby_enable_irq_plain(c) ==
    /\ Step(c, "sb_144", "sb_145", Ev("write_scr_el3", scr[c], 0))
    /\ scr_el3' = [scr_el3 EXCEPT ![c] = scr[c]]
    /\ UNCHANGED <<pm, call, fw, gate, scr, ret, gicc_enabled, console_up>>

standby_enable_irq(c) ==
    /\ Step(c, "sb_144", "sb_145", Ev("write_scr_el3", BitOr(scr[c], SCR_IRQ_BIT), 0))
    /\ scr_el3' = [scr_el3 EXCEPT ![c] = BitOr(scr[c], SCR_IRQ_BIT)]
    /\ UNCHANGED <<pm, call, fw, gate, scr, ret, gicc_enabled, console_up>>

standby_isb(c) ==
    /\ Step(c, "sb_145", "sb_151", Ev("isb", 0, 0))
    /\ UNCHANGED <<pm, call, fw, gate, scr, ret, hw>>

standby_dsb(c) ==
    /\ Step(c, "sb_151", "sb_152", Ev("dsb", 0, 0))
    /\ UNCHANGED <<pm, call, fw, gate, scr, ret, hw>>

standby_wfi(c) ==
    /\ Step(c, "sb_152", "sb_wfi", Ev("wfi", 0, 0))
    /\ UNCHANGED <<pm, call, fw, gate, scr, ret, hw>>

\* Variant: the value written back still has the IRQ bit OR-ed in.
standby_restore_scr_with_irq(c) ==
    /\ Step(c, "sb_158", "done", Ev("write_scr_el3", BitOr(scr[c], SCR_IRQ_BIT), 0))
    /\ scr_el3' = [scr_el3 EXCEPT ![c] = BitOr(scr[c], SCR_IRQ_BIT)]
    /\ ret' = [ret EXCEPT ![c] = PSCI_E_SUCCESS]
    /\ UNCHANGED <<pm, call, fw, gate, scr, gicc_enabled, console_up>>

standby_restore_scr(c) ==
    /\ Step(c, "sb_158", "done", Ev("write_scr_el3", scr[c], 0))
    /\ scr_el3' = [scr_el3 EXCEPT ![c] = scr[c]]
    /\ ret' = [ret EXCEPT ![c] = PSCI_E_SUCCESS]
    /\ UNCHANGED <<pm, call, fw, gate, scr, gicc_enabled, console_up>>

\* Where a core blocked in wfi resumes.
AfterWfi(p) ==
    CASE p = "sb_wfi" -> "sb_158"
      [] p = "soff_wfi" -> "soff_264"
      [] p = "rst_wfi" -> "rst_274"
      [] OTHER -> p

\* An interrupt or event ends the wfi of core c.
wfi_wake(c) ==
    /\ pc[c] \in {"sb_wfi", "soff_wfi", "rst_wfi"}
    /\ \E cause \in WakeCauses : Step(c, pc[c], AfterWfi(pc[c]), Ev(cause, 0, 0))
    /\ UNCHANGED <<pm, call, fw, gate, scr, ret, hw>>

-----------------------------------------------------------------------------
(* sunxi_power_down_common, sunxi_affinst_off, sunxi_affinst_suspend.        *)

\* Variant: the CPU interface is left enabled before the power-down.
power_down_cpuif_deactivate_skipped(c) ==
    /\ pc[c] = "pd_176"
    /\ pc' = [pc EXCEPT ![c] = "pd_178"]
    /\ UNCHANGED <<pm, call, fw, gate, scr, ret, trace, hw>>

power_down_cpuif_deactivate(c) ==
    /\ Step(c, "pd_176", "pd_178", Ev("arm_gic_cpuif_deactivate", 0, 0))
    /\ gicc_enabled' = [gicc_enabled EXCEPT ![c] = FALSE]
    /\ UNCHANGED <<pm, call, fw, gate, scr, ret, scr_el3, console_up>>

power_down_cpu(c) ==
    /\ Step(c, "pd_178", "done",
            Ev("sun50i_cpu_power_down", cluster_nr(call[c].mpidr), cpu_nr(call[c].mpidr)))
    /\ ret' = [ret EXCEPT ![c] = PSCI_E_SUCCESS]
    /\ UNCHANGED <<pm, call, fw, gate, scr, hw>>

\* Variant: the Off handler ignores the gate's -EAGAIN and powers down.
affinst_off_gate_ignored(c) ==
    /\ pc[c] = "off_197"
    /\ gate' = [gate EXCEPT ![c] = sunxi_do_plat_actions(call[c].afflvl, call[c].state, fw[c])]
    /\ pc' = [pc EXCEPT ![c] = IF gate'[c].asserted THEN "assert_failed" ELSE "pd_176"]
    /\ UNCHANGED <<pm, call, fw, scr, ret, trace, hw>>

affinst_off_gate(c) == GateStep(c, "off_197", "pd_176")

affinst_suspend_gate(c) == GateStep(c, "susp_222", "susp_225")

\* Variant: the console is shut down at whatever level acts.
affinst_suspend_console_always(c) ==
    /\ Step(c, "susp_225", "pd_176", Ev("console_exit", 0, 0))
    /\ console_up' = FALSE
    /\ UNCHANGED <<pm, call, fw, gate, scr, ret, scr_el3, gicc_enabled>>

affinst_suspend_console(c) ==
    /\ pc[c] = "susp_225"
    /\ IF call[c].afflvl = fw[c].suspend_afflvl
       THEN /\ Step(c, "susp_225", "pd_176", Ev("console_exit", 0, 0))
            /\ console_up' = FALSE
       ELSE /\ pc' = [pc EXCEPT ![c] = "pd_176"]
            /\ UNCHANGED <<trace, console_up>>
    /\ UNCHANGED <<pm, call, fw, gate, scr, ret, scr_el3, gicc_enabled>>

-----------------------------------------------------------------------------
(* sunxi_affinst_suspend_finish: the Suspend Finisher.                       *)

\* Variant: the core index is not looked at.
suspend_finish_global_any_core(mpidr, afflvl, f) == afflvl = f.suspend_afflvl

\* The condition of line 242.
suspend_finish_global(mpidr, afflvl, f) ==
    afflvl = f.suspend_afflvl /\ BitAnd(mpidr, 255) = 0

suspend_finish_check(c) ==
    /\ pc[c] = "sf_242"
    /\ pc' = [pc EXCEPT ![c] = IF suspend_finish_global(call[c].mpidr, call[c].afflvl, fw[c])
                                THEN "sf_243" ELSE "onfin_111"]
    /\ UNCHANGED <<pm, call, fw, gate, scr, ret, trace, hw>>

suspend_finish_gic_init(c) ==
    /\ Step(c, "sf_243", "sf_244", Ev("arm_gic_init", 0, 0))
    /\ UNCHANGED <<pm, call, fw, gate, scr, ret, hw>>

suspend_finish_gic_setup(c) ==
    /\ Step(c, "sf_244", "sf_245", Ev("arm_gic_setup", 0, 0))
    /\ gicc_enabled' = [gicc_enabled EXCEPT ![c] = TRUE]
    /\ UNCHANGED <<pm, call, fw, gate, scr, ret, scr_el3, console_up>>

\* Variant: the Suspend Finisher returns after the system-wide
\* reinitialisation instead of going on to the Resume Finisher.
suspend_finish_console_init_returns(c) ==
    /\ Step(c, "sf_245", "done", Ev("console_init", 0, 0))
    /\ console_up' = TRUE
    /\ ret' = [ret EXCEPT ![c] = PSCI_E_SUCCESS]
    /\ UNCHANGED <<pm, call, fw, gate, scr, scr_el3, gicc_enabled>>

suspend_finish_console_init(c) ==
    /\ Step(c, "sf_245", "onfin_111", Ev("console_init", 0, 0))
    /\ console_up' = TRUE
    /\ UNCHANGED <<pm, call, fw, gate, scr, ret, scr_el3, gicc_enabled>>

-----------------------------------------------------------------------------
(* sunxi_system_off and sunxi_system_reset: the terminal handlers.           *)

\* Status codes sunxi_power_set_cpu_voltage() may return when power stays on.
VoltageStatus == {0, -1}

system_off_set_voltage(c) ==
    /\ \E r \in VoltageStatus :
          Step(c, "soff_259", "soff_261", Ev("sunxi_power_set_cpu_voltage", -1, r))
    /\ UNCHANGED <<pm, call, fw, gate, scr, ret, hw>>

\* The actuator does cut the power: the core stops inside the call.
system_off_power_cut(c) ==
    /\ Step(c, "soff_259", "powered_off", Ev("sunxi_power_set_cpu_voltage", -1, 0))
    /\ UNCHANGED <<pm, call, fw, gate, scr, ret, hw>>

system_off_error(c) ==
    /\ Step(c, "soff_261", "soff_263", Ev("ERROR", 0, 0))
    /\ UNCHANGED <<pm, call, fw, gate, scr, ret, hw>>

system_off_wfi(c) ==
    /\ Step(c, "soff_263", "soff_wfi", Ev("wfi", 0, 0))
    /\ UNCHANGED <<pm, call, fw, gate, scr, ret, hw>>

\* Variant: panic() returns and so does the handler.
system_off_panic_returns(c) ==
    /\ Step(c, "soff_264", "done", Ev("panic", 0, 0))
    /\ UNCHANGED <<pm, call, fw, gate, scr, ret, hw>>

\* panic() does not return: the core stays at "panic".
system_off_panic(c) ==
    /\ Step(c, "soff_264", "panic", Ev("panic", 0, 0))
    /\ UNCHANGED <<pm, call, fw, gate, scr, ret, hw>>

system_reset_write_cfg(c) ==
    /\ Step(c, "rst_269", "rst_270", Ev("mmio_write_32", WDOG_CFG_REG, 1))
    /\ UNCHANGED <<pm, call, fw, gate, scr, ret, hw>>

\* Variant: the second write goes to the control register.
system_reset_write_mode_to_ctrl(c) ==
    /\ Step(c, "rst_270", "rst_271", Ev("mmio_write_32", WDOG_CTRL_REG, 1))
    /\ UNCHANGED <<pm, call, fw, gate, scr, ret, hw>>

system_reset_write_mode(c) ==
    /\ Step(c, "rst_270", "rst_271", Ev("mmio_write_32", WDOG_MODE_REG, 1))
    /\ UNCHANGED <<pm, call, fw, gate, scr, ret, hw>>

system_reset_write_ctrl(c) ==
    /\ Step(c, "rst_271", "rst_273", Ev("mmio_write_32", WDOG_CTRL_REG, BitOr(ShiftL(WDOG_KEY, 1), 1)))
    /\ UNCHANGED <<pm, call, fw, gate, scr, ret, hw>>

system_reset_wfi(c) ==
    /\ Step(c, "rst_273", "rst_wfi", Ev("wfi", 0, 0))
    /\ UNCHANGED <<pm, call, fw, gate, scr, ret, hw>>

\* The watchdog resets the SoC: the core leaves the handler for good.
system_reset_taken(c) ==
    /\ pc[c] \in {"rst_273", "rst_wfi"}
    /\ pc' = [pc EXCEPT ![c] = "in_reset"]
    /\ UNCHANGED <<pm, call, fw, gate, scr, ret, trace, hw>>

system_reset_error(c) ==
    /\ Step(c, "rst_274", "rst_275", Ev("ERROR", 0, 0))
    /\ UNCHANGED <<pm, call, fw, gate, scr, ret, hw>>

system_reset_panic(c) ==
    /\ Step(c, "rst_275", "panic", Ev("panic", 0, 0))
    /\ UNCHANGED <<pm, call, fw, gate, scr, ret, hw>>

-----------------------------------------------------------------------------
(* sunxi_ops: the framework invokes a handler through the ops table.         *)

invoke_on(c) ==
    /\ pc[c] = "idle"
    /\ \E m \in MpidrInputs, e \in EntryInputs, l \in AffLvlInputs, s \in StateInputs :
        Enter(c, "on", "on_91", m, e, l, s, 0, NoFw)

invoke_on_finish(c) ==
    /\ pc[c] = "idle"
    /\ \E m \in MpidrInputs, l \in AffLvlInputs, s \in StateInputs, x \in FwLvls, y \in FwLvls :
        Enter(c, "on_finish", "onfin_111", m, 0, l, s, 0,
              [max_phys_off_afflvl |-> x, suspend_afflvl |-> y])

invoke_standby(c) ==
    /\ pc[c] = "idle"
    /\ \E p \in PowerStateInputs : Enter(c, "standby", "sb_133", 0, 0, 0, 0, p, NoFw)

invoke_off(c) ==
    /\ pc[c] = "idle"
    /\ \E m \in MpidrInputs, l \in AffLvlInputs, s \in StateInputs, x \in FwLvls, y \in FwLvls :
        Enter(c, "off", "off_197", m, 0, l, s, 0,
              [max_phys_off_afflvl |-> x, suspend_afflvl |-> y])

invoke_suspend(c) ==
    /\ pc[c] = "idle"
    /\ \E m \in MpidrInputs, e \in EntryInputs, l \in AffLvlInputs, s \in StateInputs,
       x \in FwLvls, y \in FwLvls :
        Enter(c, "suspend", "susp_222", m, e, l, s, 0,
              [max_phys_off_afflvl |-> x, suspend_afflvl |-> y])

invoke_suspend_finish(c) ==
    /\ pc[c] = "idle"
    /\ \E m \in MpidrInputs, l \in AffLvlInputs, s \in StateInputs, x \in FwLvls, y \in FwLvls :
        Enter(c, "suspend_finish", "sf_242", m, 0, l, s, 0,
              [max_phys_off_afflvl |-> x, suspend_afflvl |-> y])

invoke_system_off(c) == Enter(c, "system_off", "soff_259", 0, 0, 0, 0, 0, NoFw)

invoke_system_reset(c) == Enter(c, "system_reset", "rst_269", 0, 0, 0, 0, 0, NoFw)

\* Every core wakes from a system-wide suspend (suspend level and
\* maximum-physical-off level MPIDR_MAX_AFFLVL) and runs the Suspend
\* Finisher for its own affinity address, level by level.
wake_suspend_finish(c) ==
    /\ pc[c] = "idle"
    /\ \E l \in 0 .. MPIDR_MAX_AFFLVL, s \in {PSCI_STATE_ON, PSCI_STATE_OFF} :
        Enter(c, "suspend_finish", "sf_242", c, 0, l, s, 0,
              [max_phys_off_afflvl |-> MPIDR_MAX_AFFLVL, suspend_afflvl |-> MPIDR_MAX_AFFLVL])

-----------------------------------------------------------------------------
(* Specifications.                                                           *)

\* One core, every handler, every input.
Next ==
    \E c \in {PrimaryCore} :
        \/ invoke_on(c) \/ invoke_on_finish(c) \/ invoke_standby(c) \/ invoke_off(c)
        \/ invoke_suspend(c) \/ invoke_suspend_finish(c)
        \/ invoke_system_off(c) \/ invoke_system_reset(c)
        \/ Return(c)
        \/ affinst_on_level(c) \/ affinst_on_set_entry(c) \/ affinst_on_power_up(c)
        \/ on_finish_gate(c) \/ on_finish_smp_init(c) \/ on_finish_cpuif_setup(c)
        \/ on_finish_distif_setup(c)
        \/ standby_level(c) \/ standby_read_scr(c) \/ standby_enable_irq(c)
        \/ standby_isb(c) \/ standby_dsb(c) \/ standby_wfi(c) \/ standby_restore_scr(c)
        \/ wfi_wake(c)
        \/ power_down_cpuif_deactivate(c) \/ power_down_cpu(c)
        \/ affinst_off_gate(c) \/ affinst_suspend_gate(c) \/ affinst_suspend_console(c)
        \/ suspend_finish_check(c) \/ suspend_finish_gic_init(c)
        \/ suspend_finish_gic_setup(c) \/ suspend_finish_console_init(c)
        \/ system_off_set_voltage(c) \/ system_off_power_cut(c) \/ system_off_error(c)
        \/ system_off_wfi(c) \/ system_off_panic(c)
        \/ system_reset_write_cfg(c) \/ system_reset_write_mode(c)
        \/ system_reset_write_ctrl(c) \/ system_reset_wfi(c) \/ system_reset_taken(c)
        \/ system_reset_error(c) \/ system_reset_panic(c)

Spec == Init /\ [][Next]_vars

\* All cores concurrently, each finishing a system-wide suspend.
NextSMP ==
    \E c \in Cores :
        \/ wake_suspend_finish(c)
        \/ Return(c)
        \/ suspend_finish_check(c) \/ suspend_finish_gic_init(c)
        \/ suspend_finish_gic_setup(c) \/ suspend_finish_console_init(c)
        \/ on_finish_gate(c) \/ on_finish_smp_init(c) \/ on_finish_cpuif_setup(c)
        \/ on_finish_distif_setup(c)

SpecSMP == Init /\ [][NextSMP]_vars

-----------------------------------------------------------------------------
(* The framework walks one core's Off or Suspend transition: it invokes the  *)
(* handler once per affinity level, from level 0 up to the target level.     *)
(* The trace is kept over the whole walk.                                    *)

\* The last level of the walk: the suspend level for Suspend, the highest
\* affinity level for Off.
WalkTarget(c) ==
    IF call[c].op = "suspend" THEN fw[c].suspend_afflvl ELSE MPIDR_MAX_AFFLVL

\* States the framework may pass at level l: OFF at the
\* maximum-physical-off level x, ON or OFF elsewhere.
WalkStates(l, x) ==
    IF l = x THEN {PSCI_STATE_OFF} ELSE {PSCI_STATE_ON, PSCI_STATE_OFF}

walk_start_off(c) ==
    /\ pc[c] = "idle"
    /\ \E m \in MpidrInputs, x \in 0 .. MPIDR_MAX_AFFLVL :
          \E s \in WalkStates(0, x) :
              Enter(c, "off", "off_197", m, 0, 0, s, 0,
                    [max_phys_off_afflvl |-> x, suspend_afflvl |-> PSCI_INVALID_DATA])

walk_start_suspend(c) ==
    /\ pc[c] = "idle"
    /\ \E m \in MpidrInputs, e \in EntryInputs, y \in 0 .. MPIDR_MAX_AFFLVL :
          \E x \in 0 .. y :
              \E s \in WalkStates(0, x) :
                  Enter(c, "suspend", "susp_222", m, e, 0, s, 0,
                        [max_phys_off_afflvl |-> x, suspend_afflvl |-> y])

\* The handler returned at one level; the framework invokes it at the next.
walk_next(c) ==
    /\ pc[c] = "done"
    /\ call[c].op \in {"off", "suspend"}
    /\ call[c].afflvl < WalkTarget(c)
    /\ \E s \in WalkStates(call[c].afflvl + 1, fw[c].max_phys_off_afflvl) :
          call' = [call EXCEPT ![c].afflvl = @ + 1, ![c].state = s]
    /\ pc' = [pc EXCEPT ![c] = IF call[c].op = "off" THEN "off_197" ELSE "susp_222"]
    /\ gate' = [gate EXCEPT ![c] = NoGate]
    /\ ret' = [ret EXCEPT ![c] = 0]
    /\ UNCHANGED <<pm, fw, scr, trace, hw>>

\* The walk is over.
walk_return(c) ==
    /\ call[c].afflvl = WalkTarget(c)
    /\ Return(c)

NextWalk ==
    \E c \in {PrimaryCore} :
        \/ walk_start_off(c) \/ walk_start_suspend(c) \/ walk_next(c) \/ walk_return(c)
        \/ affinst_off_gate(c) \/ affinst_suspend_gate(c) \/ affinst_suspend_console(c)
        \/ power_down_cpuif_deactivate(c) \/ power_down_cpu(c)

SpecWalk == Init /\ [][NextWalk]_vars

-----------------------------------------------------------------------------
(* platform_setup_pm: the primary core exports the ops table and            *)
(* initialises the console lock while the other cores may already invoke    *)
(* the handlers through the table.                                           *)

\* State at the call of platform_setup_pm on the primary core.
InitBoot ==
    /\ pc = [c \in Cores |-> IF c = PrimaryCore THEN "setup_297" ELSE "idle"]
    /\ call = [c \in Cores |-> IF c = PrimaryCore
                                THEN [NoCall EXCEPT !.op = "platform_setup_pm"]
                                ELSE NoCall]
    /\ fw = [c \in Cores |-> NoFw]
    /\ gate = [c \in Cores |-> NoGate]
    /\ scr = [c \in Cores |-> 0]
    /\ ret = [c \in Cores |-> 0]
    /\ trace = [c \in Cores |-> << >>]
    /\ \E v \in ScrValues : scr_el3 = [c \in Cores |-> v]
    /\ gicc_enabled = [c \in Cores |-> TRUE]
    /\ console_up = TRUE
    /\ plat_ops = "null"
    /\ plat_console_lock = "uninit"

\* Line 297: *plat_ops = &sunxi_ops.
setup_export_ops(c) ==
    /\ pc[c] = "setup_297"
    /\ pc' = [pc EXCEPT ![c] = "setup_298"]
    /\ plat_ops' = "sunxi_ops"
    /\ UNCHANGED <<plat_console_lock, call, fw, gate, scr, ret, trace, hw>>

\* Lines 298-299: bakery_lock_init(&plat_console_lock); return 0.
setup_lock_init(c) ==
    /\ pc[c] = "setup_298"
    /\ pc' = [pc EXCEPT ![c] = "done"]
    /\ plat_console_lock' = "init"
    /\ ret' = [ret EXCEPT ![c] = 0]
    /\ UNCHANGED <<plat_ops, call, fw, gate, scr, trace, hw>>

\* A core suspends the system, or finishes a system suspend, at the suspend
\* level, for its own affinity address.
boot_suspend(c) ==
    Enter(c, "suspend", "susp_222", c, 1, MPIDR_MAX_AFFLVL, PSCI_STATE_OFF, 0,
          [max_phys_off_afflvl |-> MPIDR_MAX_AFFLVL, suspend_afflvl |-> MPIDR_MAX_AFFLVL])

boot_suspend_finish(c) ==
    Enter(c, "suspend_finish", "sf_242", c, 0, MPIDR_MAX_AFFLVL, PSCI_STATE_OFF, 0,
          [max_phys_off_afflvl |-> MPIDR_MAX_AFFLVL, suspend_afflvl |-> MPIDR_MAX_AFFLVL])

NextSetup ==
    \E c \in Cores :
        \/ setup_export_ops(c) \/ setup_lock_init(c)
        \/ boot_suspend(c) \/ boot_suspend_finish(c) \/ Return(c)
        \/ affinst_suspend_gate(c) \/ affinst_suspend_console(c)
        \/ power_down_cpuif_deactivate(c) \/ power_down_cpu(c)
        \/ suspend_finish_check(c) \/ suspend_finish_gic_init(c)
        \/ suspend_finish_gic_setup(c) \/ suspend_finish_console_init(c)
        \/ on_finish_gate(c) \/ on_finish_smp_init(c) \/ on_finish_cpuif_setup(c)
        \/ on_finish_distif_setup(c)

SpecSetup == InitBoot /\ [][NextSetup]_vars

-----------------------------------------------------------------------------
(* A power-down/resume cycle of one core: Off followed by On-Finish, or      *)
(* Suspend followed by Suspend-Finish, with the same address, level, state   *)
(* and framework-reported levels.  The trace is kept over the cycle.         *)

cycle_start_off(c) ==
    /\ pc[c] = "idle"
    /\ \E m \in MpidrInputs, l \in AffLvlInputs, s \in StateInputs, x \in FwLvls, y \in FwLvls :
          Enter(c, "off", "off_197", m, 0, l, s, 0,
                [max_phys_off_afflvl |-> x, suspend_afflvl |-> y])

cycle_start_suspend(c) ==
    /\ pc[c] = "idle"
    /\ \E m \in MpidrInputs, l \in AffLvlInputs, s \in StateInputs, x \in FwLvls, y \in FwLvls :
          Enter(c, "suspend", "susp_222", m, 1, l, s, 0,
                [max_phys_off_afflvl |-> x, suspend_afflvl |-> y])

\* The power-down handler returned; the framework later invokes the matching
\* finisher with the same arguments.
cycle_resume(c) ==
    /\ pc[c] = "done"
    /\ call[c].op \in {"off", "suspend"}
    /\ call' = [call EXCEPT ![c].op = IF call[c].op = "off" THEN "on_finish" ELSE "suspend_finish"]
    /\ pc' = [pc EXCEPT ![c] = IF call[c].op = "off" THEN "onfin_111" ELSE "sf_242"]
    /\ gate' = [gate EXCEPT ![c] = NoGate]
    /\ ret' = [ret EXCEPT ![c] = 0]
    /\ UNCHANGED <<pm, fw, scr, trace, hw>>

\* The finisher returned: the cycle is over.
cycle_return(c) ==
    /\ call[c].op \in {"on_finish", "suspend_finish"}
    /\ Return(c)

NextCycle ==
    \E c \in {PrimaryCore} :
        \/ cycle_start_off(c) \/ cycle_start_suspend(c) \/ cycle_resume(c) \/ cycle_return(c)
        \/ affinst_off_gate(c) \/ affinst_suspend_gate(c) \/ affinst_suspend_console(c)
        \/ power_down_cpuif_deactivate(c) \/ power_down_cpu(c)
        \/ suspend_finish_check(c) \/ suspend_finish_gic_init(c)
        \/ suspend_finish_gic_setup(c) \/ suspend_finish_console_init(c)
        \/ on_finish_gate(c) \/ on_finish_smp_init(c) \/ on_finish_cpuif_setup(c)
        \/ on_finish_distif_setup(c)

SpecCycle == Init /\ [][NextCycle]_vars

-----------------------------------------------------------------------------
(* Properties.                                                               *)

\* The framework-reported levels pass the assertions of the gate.
ValidLevels(f) ==
    /\ f.max_phys_off_afflvl \in 0 .. MPIDR_MAX_AFFLVL
    /\ (f.suspend_afflvl = PSCI_INVALID_DATA \/ f.suspend_afflvl >= f.max_phys_off_afflvl)

\* C1: Action Gate verdict.  For every level L in 0..MPIDR_MAX_AFFLVL and
\* state S, the gate defers (-EAGAIN) whenever S is not OFF; with valid
\* framework-reported levels it returns 0 exactly when S is OFF and L is the
\* maximum-physical-off level, and -EAGAIN otherwise; it never returns 0 for
\* a level below the maximum-physical-off level.
C1_GateVerdict ==
    \A c \in Cores :
        (gate[c].called /\ call[c].afflvl \in 0 .. MPIDR_MAX_AFFLVL) =>
            LET L == call[c].afflvl
                S == call[c].state
                f == fw[c]
                g == gate[c]
            IN  /\ (S # PSCI_STATE_OFF => ~g.asserted /\ g.rc = -11)
                /\ (ValidLevels(f) =>
                       /\ ~g.asserted
                       /\ g.rc \in {0, -11}
                       /\ (g.rc = 0 <=> (S = PSCI_STATE_OFF /\ L = f.max_phys_off_afflvl)))
                /\ ((~g.asserted /\ g.rc = 0) => ~(L < f.max_phys_off_afflvl))

\* C1 witness: the gate said "act now" at level 1 and the handler went on.
C1_Witness ==
    \E c \in Cores :
        /\ gate[c].called /\ ~gate[c].asserted /\ gate[c].rc = 0
        /\ call[c].afflvl = 1 /\ call[c].state = PSCI_STATE_OFF
        /\ fw[c].max_phys_off_afflvl = 1 /\ fw[c].suspend_afflvl = 2
        /\ pc[c] = "pd_176"

\* The framework-reported levels violate a precondition of the gate: the
\* maximum-physical-off level is the sentinel, or the suspend level is lower
\* than it (as unsigned 32-bit values).
BadLevels(f) ==
    \/ f.max_phys_off_afflvl = PSCI_INVALID_DATA
    \/ (f.suspend_afflvl \in 0 .. MPIDR_MAX_AFFLVL /\ f.suspend_afflvl < f.max_phys_off_afflvl)

\* C2 as stated: every invocation of the gate, for any level and any state,
\* fails an assertion when the framework-reported levels are bad.
C2_AssertsForAnyState ==
    \A c \in Cores : (gate[c].called /\ BadLevels(fw[c])) => gate[c].asserted

\* C2 amended: an invocation of the gate with state OFF fails an assertion
\* (the core stops at the assertion, no verdict is returned) when the
\* framework-reported levels are bad; with any other state and a level in
\* 0..MPIDR_MAX_AFFLVL the gate returns -EAGAIN without looking at them.
C2_AssertsWhenOff ==
    \A c \in Cores :
        (gate[c].called /\ BadLevels(fw[c])) =>
            /\ (call[c].state = PSCI_STATE_OFF =>
                   gate[c].asserted /\ pc[c] = "assert_failed")
            /\ ((call[c].state # PSCI_STATE_OFF /\ call[c].afflvl \in 0 .. MPIDR_MAX_AFFLVL) =>
                   ~gate[c].asserted /\ gate[c].rc = -11)

\* C2 witness: state OFF, the suspend level below the maximum-physical-off
\* level, and the assertion failed.
C2_Witness ==
    \E c \in Cores :
        /\ gate[c].called /\ gate[c].asserted /\ pc[c] = "assert_failed"
        /\ call[c].state = PSCI_STATE_OFF /\ call[c].afflvl = 1
        /\ fw[c].max_phys_off_afflvl = 1 /\ fw[c].suspend_afflvl = 0

\* C3: when the gate defers, Off and Suspend return PSCI_E_SUCCESS and have
\* made no call at all: no power-down actuator, no GIC CPU-interface
\* deactivation, no console shutdown.
C3_DeferredIsNoOp ==
    \A c \in Cores :
        (call[c].op \in {"off", "suspend"} /\ gate[c].called /\ ~gate[c].asserted
            /\ gate[c].rc = -11) =>
            /\ pc[c] = "done"
            /\ ret[c] = 0
            /\ trace[c] = << >>

\* C3 witness: Off at level 1 while the maximum-physical-off level is 0.
C3_Witness ==
    \E c \in Cores :
        /\ call[c].op = "off" /\ call[c].afflvl = 1 /\ call[c].state = PSCI_STATE_OFF
        /\ fw[c].max_phys_off_afflvl = 0 /\ fw[c].suspend_afflvl = 1
        /\ gate[c].called /\ gate[c].rc = -11
        /\ pc[c] = "done" /\ ret[c] = 0 /\ trace[c] = << >>

\* The calls of the system-wide reinitialisation of the Suspend Finisher.
GlobalReinitCalls == {"arm_gic_init", "arm_gic_setup", "console_init"}

\* C4: in every invocation of the Suspend Finisher the system-wide GIC
\* initialisation/setup and the console re-initialisation are performed if
\* and only if the call's level equals the framework's suspend level and the
\* core index (AFF0) of the affinity address is 0.
C4_GlobalReinitCondition ==
    \A c \in Cores :
        call[c].op = "suspend_finish" =>
            LET due == /\ call[c].afflvl = fw[c].suspend_afflvl
                       /\ (call[c].mpidr % 256) = 0
            IN  /\ ((\E n \in GlobalReinitCalls : Has(trace[c], n)) => due)
                /\ ((due /\ pc[c] \notin {"sf_242", "sf_243", "sf_244", "sf_245"}) =>
                       /\ \A n \in GlobalReinitCalls : Has(trace[c], n)
                       /\ Pos(trace[c], "arm_gic_init") = 1
                       /\ Pos(trace[c], "arm_gic_setup") = 2
                       /\ Pos(trace[c], "console_init") = 3)

\* C4 witness: the Suspend Finisher ran the reinitialisation for an address
\* with AFF0 = 0 and non-zero higher fields, and returned.
C4_Witness ==
    \E c \in Cores :
        /\ call[c].op = "suspend_finish" /\ pc[c] = "done"
        /\ call[c].mpidr = 256 /\ call[c].afflvl = 2 /\ fw[c].suspend_afflvl = 2
        /\ \A n \in GlobalReinitCalls : Has(trace[c], n)

\* Core c is about to run, or is inside, the system-wide reinitialisation.
InGlobalReinit(c) == pc[c] \in {"sf_243", "sf_244", "sf_245"}

\* C5: in any interleaving of the cores of all clusters finishing a
\* system-wide suspend, only the primary core runs the system-wide
\* interrupt-controller reinitialisation, and no two cores are inside it at
\* the same time.
C5_OnlyPrimaryRebuilds ==
    /\ \A c \in Cores : (InGlobalReinit(c) \/ Has(trace[c], "arm_gic_init")) => c = PrimaryCore
    /\ \A c1, c2 \in Cores : (InGlobalReinit(c1) /\ InGlobalReinit(c2)) => c1 = c2

\* C6: a standby request for the core level returns PSCI_E_SUCCESS with
\* SCR_EL3 equal to the value it held when the handler read it on entry,
\* whatever that value was and whatever ended the wait.
C6_StandbyRestoresScr ==
    \A c \in Cores :
        (call[c].op = "standby" /\ pc[c] = "done"
            /\ (call[c].power_state \div 16777216) % 4 = 0) =>
            /\ ret[c] = 0
            /\ Len(trace[c]) >= 1
            /\ trace[c][1].ev = "read_scr_el3"
            /\ scr_el3[c] = trace[c][1].a
            /\ \E w \in WakeCauses : Has(trace[c], w)

\* C6 witness: standby returned after a wait ended by an interrupt, entered
\* with SCR_EL3 = 0x431 (IRQ bit clear, so the restore undoes a change).
C6_Witness ==
    \E c \in Cores :
        /\ call[c].op = "standby" /\ pc[c] = "done" /\ ret[c] = 0
        /\ trace[c][1].a = 1073 /\ scr_el3[c] = 1073
        /\ Has(trace[c], "irq")
        /\ \E i \in 1 .. Len(trace[c]) : trace[c][i] = Ev("write_scr_el3", 1075, 0)

\* C7: for a power_state whose affinity-level field (bits [25:24]) is not 0
\* the standby handler returns PSCI_E_INVALID_PARAMS in its first step,
\* having made no call (no SCR_EL3 access, no barrier, no wfi) and leaving
\* the hardware state unchanged.
C7_StandbyRejectsNonCore ==
    [][\A c \in Cores :
          (pc[c] = "sb_133" /\ pc'[c] # "sb_133"
              /\ (call[c].power_state \div 16777216) % 4 # 0) =>
              /\ pc'[c] = "done"
              /\ ret'[c] = -2
              /\ trace'[c] = << >>
              /\ scr'[c] = scr[c]
              /\ scr_el3' = scr_el3
              /\ gicc_enabled' = gicc_enabled
              /\ console_up' = console_up]_vars

\* C7 witness: standby for level 1 returned the error with no call made.
C7_Witness ==
    \E c \in Cores :
        /\ call[c].op = "standby" /\ pc[c] = "done" /\ ret[c] = -2
        /\ call[c].power_state = 16777216
        /\ trace[c] = << >>

\* Positions at which a core has stopped for good.
Halted == {"panic", "powered_off", "in_reset"}

\* C8: once system-off or system-reset has been invoked on a core, the core
\* never returns to the caller (it never reaches "done" or "idle" and stays
\* in that handler), and a core that has halted stays halted.
C8_TerminalNeverReturns ==
    [][\A c \in Cores :
          call[c].op \in {"system_off", "system_reset"} =>
              /\ call'[c] = call[c]
              /\ pc'[c] \notin {"done", "idle"}
              /\ (pc[c] \in Halted => pc'[c] = pc[c])]_vars

\* C8 witness: the voltage actuator returned, the wfi of system-off was ended
\* by an interrupt, and the core sits in panic().
C8_Witness ==
    \E c \in Cores :
        /\ call[c].op = "system_off" /\ pc[c] = "panic"
        /\ Has(trace[c], "sunxi_power_set_cpu_voltage")
        /\ Has(trace[c], "irq")

\* The three register writes of system-reset: 1 to 0x01c20cb4, 1 to
\* 0x01c20cb8, (0xa57 << 1) | 1 to 0x01c20cb0.
ResetWrites ==
    << Ev("mmio_write_32", 29494452, 1),
       Ev("mmio_write_32", 29494456, 1),
       Ev("mmio_write_32", 29494448, 5295) >>

\* C9: system-reset makes exactly the three register writes, in order,
\* before it enters wfi; nothing else precedes the wfi, the wfi follows the
\* third write, and no further register write follows.
C9_ResetSequence ==
    \A c \in Cores :
        call[c].op = "system_reset" =>
            LET t == trace[c] IN
            /\ (Len(t) <= 3 => t = SubSeq(ResetWrites, 1, Len(t)))
            /\ (Len(t) > 3 =>
                   /\ SubSeq(t, 1, 3) = ResetWrites
                   /\ t[4].ev = "wfi"
                   /\ \A i \in 4 .. Len(t) : t[i].ev # "mmio_write_32")
            /\ (pc[c] \in {"rst_wfi", "rst_274", "rst_275", "panic"} => Len(t) >= 4)
            /\ (pc[c] = "rst_273" => Len(t) = 3)

\* C9 witness: the core is blocked in the wfi of system-reset after the
\* three writes.
C9_Witness ==
    \E c \in Cores :
        /\ call[c].op = "system_reset" /\ pc[c] = "rst_wfi"
        /\ trace[c] = ResetWrites \o << Ev("wfi", 0, 0) >>

\* C10: every power-up call made by On and every power-down call made by
\* Off or Suspend targets (cluster, core) = (AFF1, AFF0) of the handler's
\* affinity address, and On records the secondary entry address for that
\* core index.
C10_ActuatorTargets ==
    \A c \in Cores :
        LET t == trace[c]
            core == call[c].mpidr % 256
            cluster == (call[c].mpidr \div 256) % 256
        IN  \A i \in 1 .. Len(t) :
                /\ (t[i].ev = "sun50i_cpu_power_up" =>
                       /\ call[c].op = "on"
                       /\ t[i].a = cluster /\ t[i].b = core
                       /\ i = 2
                       /\ t[1] = Ev("sun50i_set_secondary_entry", call[c].sec_entrypoint, core))
                /\ (t[i].ev = "sun50i_cpu_power_down" =>
                       /\ call[c].op \in {"off", "suspend"}
                       /\ t[i].a = cluster /\ t[i].b = core)
                /\ (t[i].ev = "sun50i_set_secondary_entry" =>
                       /\ call[c].op = "on"
                       /\ t[i].a = call[c].sec_entrypoint /\ t[i].b = core)

\* C10 witness: Off for core 2 of cluster 1 at level 0 with
\* maximum-physical-off level 0 powered down (1, 2) once and returned success.
C10_Witness ==
    \E c \in Cores :
        /\ call[c].op = "off" /\ call[c].mpidr = 258 /\ call[c].afflvl = 0
        /\ fw[c].max_phys_off_afflvl = 0
        /\ pc[c] = "done" /\ ret[c] = 0
        /\ trace[c] = << Ev("arm_gic_cpuif_deactivate", 0, 0), Ev("sun50i_cpu_power_down", 1, 2) >>

\* Number of calls of this name in a trace.
Count(t, name) == Cardinality({i \in 1 .. Len(t) : t[i].ev = name})

\* C11: over one walk of Off or Suspend from level 0 to the target level,
\* with a valid maximum-physical-off level M in that range and state OFF at
\* M, the power-down actuator and the GIC CPU-interface deactivation are
\* each invoked exactly once, in the call for level M: none before that
\* call, one once it has returned, and no more at the levels above.
C11_PowerDownOncePerWalk ==
    \A c \in Cores :
        call[c].op \in {"off", "suspend"} =>
            LET n == Count(trace[c], "sun50i_cpu_power_down")
                d == Count(trace[c], "arm_gic_cpuif_deactivate")
                L == call[c].afflvl
                M == fw[c].max_phys_off_afflvl
            IN  /\ n <= 1 /\ d <= 1 /\ n <= d
                /\ (L < M => d = 0)
                /\ ((L = M /\ pc[c] \in {"off_197", "susp_222", "susp_225", "pd_176"}) => d = 0)
                /\ ((L = M /\ pc[c] = "done") => n = 1)
                /\ (L > M => n = 1)
                /\ pc[c] # "assert_failed"

\* C11 witness: a Suspend walk to level 2 with maximum-physical-off level 1
\* is over and the actuator was invoked once.
C11_Witness ==
    \E c \in Cores :
        /\ call[c].op = "suspend" /\ pc[c] = "done"
        /\ call[c].afflvl = 2 /\ fw[c].suspend_afflvl = 2 /\ fw[c].max_phys_off_afflvl = 1
        /\ Count(trace[c], "sun50i_cpu_power_down") = 1
        /\ Count(trace[c], "arm_gic_cpuif_deactivate") = 1

\* The gate was consulted and said "act now".
ActNow(c) == gate[c].called /\ ~gate[c].asserted /\ gate[c].rc = 0

\* C12: in every Off or Suspend invocation the GIC CPU-interface
\* deactivation precedes the power-down actuator call, and whenever the
\* actuator has been invoked the core's CPU interface is disabled; an
\* invocation that acted has made both calls, in that order, when it returns.
C12_CpuifShutBeforePowerDown ==
    \A c \in Cores :
        call[c].op \in {"off", "suspend"} =>
            LET t == trace[c] IN
            /\ \A i \in 1 .. Len(t) :
                   t[i].ev = "sun50i_cpu_power_down" =>
                       /\ i > 1
                       /\ t[i - 1].ev = "arm_gic_cpuif_deactivate"
            /\ (Has(t, "sun50i_cpu_power_down") => ~gicc_enabled[c])
            /\ ((ActNow(c) /\ pc[c] = "done") =>
                   /\ Has(t, "sun50i_cpu_power_down")
                   /\ Pos(t, "arm_gic_cpuif_deactivate") = Pos(t, "sun50i_cpu_power_down") - 1)

\* C12 witness: Suspend powered the core down with the interface disabled.
C12_Witness ==
    \E c \in Cores :
        /\ call[c].op = "suspend" /\ pc[c] = "done" /\ ActNow(c)
        /\ Has(trace[c], "sun50i_cpu_power_down")
        /\ ~gicc_enabled[c]

\* C13: Suspend shuts the console down if and only if the gate says act now
\* and the call's level equals the framework's suspend level (so only when
\* the maximum-physical-off level equals the suspend level); the shutdown is
\* then the first call, before the CPU-interface deactivation and the
\* power-down; Off never shuts the console down.
C13_ConsoleShutdown ==
    \A c \in Cores :
        LET t == trace[c] IN
        /\ (call[c].op = "off" => ~Has(t, "console_exit"))
        /\ (call[c].op = "suspend" =>
               /\ (Has(t, "console_exit") =>
                      /\ ActNow(c)
                      /\ call[c].afflvl = fw[c].suspend_afflvl
                      /\ fw[c].max_phys_off_afflvl = fw[c].suspend_afflvl
                      /\ Count(t, "console_exit") = 1
                      /\ t[1].ev = "console_exit"
                      /\ ~console_up)
               /\ ((pc[c] \in {"pd_176", "pd_178", "done"} /\ ActNow(c)
                       /\ call[c].afflvl = fw[c].suspend_afflvl) =>
                      Has(t, "console_exit")))

\* C13 witness: Suspend at the suspend level shut the console down and then
\* powered the core down.
C13_Witness ==
    \E c \in Cores :
        /\ call[c].op = "suspend" /\ pc[c] = "done"
        /\ call[c].afflvl = 1 /\ fw[c].suspend_afflvl = 1
        /\ Len(trace[c]) = 3
        /\ trace[c][1].ev = "console_exit"
        /\ trace[c][2].ev = "arm_gic_cpuif_deactivate"
        /\ trace[c][3].ev = "sun50i_cpu_power_down"

\* The per-core resume steps, in the order of sunxi_affinst_on_finish.
PerCoreSteps ==
    << Ev("platform_smp_init", 0, 0), Ev("arm_gic_cpuif_setup", 0, 0),
       Ev("arm_gic_pcpu_distif_setup", 0, 0) >>

IsPerCoreStep(e) == e.ev \in {"platform_smp_init", "arm_gic_cpuif_setup", "arm_gic_pcpu_distif_setup"}

\* C14: sunxi_affinst_on_finish, called directly or as the tail of the
\* Suspend Finisher, performs the per-core resume steps if and only if the
\* gate says act now, in the order SMP signalling, CPU-interface setup,
\* per-core distributor setup; when the gate defers it performs none; it
\* returns PSCI_E_SUCCESS in both cases.
C14_ResumeFinisher ==
    \A c \in Cores :
        call[c].op \in {"on_finish", "suspend_finish"} =>
            LET t == trace[c]
                r == SelectSeq(t, IsPerCoreStep)
            IN  /\ r = SubSeq(PerCoreSteps, 1, Len(r))
                /\ r = SubSeq(t, Len(t) - Len(r) + 1, Len(t))
                /\ (r # << >> => ActNow(c))
                /\ (pc[c] = "done" =>
                       /\ ret[c] = 0
                       /\ gate[c].called /\ ~gate[c].asserted
                       /\ gate[c].rc \in {0, -11}
                       /\ (gate[c].rc = 0 => r = PerCoreSteps)
                       /\ (gate[c].rc = -11 => r = << >>))

\* C14 witness: the Resume Finisher acted and returned.
C14_Witness ==
    \E c \in Cores :
        /\ call[c].op = "on_finish" /\ pc[c] = "done" /\ ret[c] = 0
        /\ trace[c] = PerCoreSteps

\* C15: On invokes the power-up actuator if and only if the level is 0, for
\* any state and without consulting the gate; the secondary entry address of
\* that core index has then been set, in the same call, to the secure
\* entry point; at any other level it makes no call; it returns
\* PSCI_E_SUCCESS for every input.
C15_PowerUpSequencing ==
    \A c \in Cores :
        call[c].op = "on" =>
            LET t == trace[c]
                core == call[c].mpidr % 256
                cluster == (call[c].mpidr \div 256) % 256
                full == << Ev("sun50i_set_secondary_entry", call[c].sec_entrypoint, core),
                           Ev("sun50i_cpu_power_up", cluster, core) >>
            IN  /\ ~gate[c].called
                /\ pc[c] # "assert_failed"
                /\ t = SubSeq(full, 1, Len(t))
                /\ (t # << >> => call[c].afflvl = 0)
                /\ (pc[c] = "done" =>
                       /\ ret[c] = 0
                       /\ (call[c].afflvl = 0 => t = full)
                       /\ (call[c].afflvl # 0 => t = << >>))

\* C15 witness: On at level 0 with state ON for core 2 of cluster 1.
C15_Witness ==
    \E c \in Cores :
        /\ call[c].op = "on" /\ pc[c] = "done" /\ ret[c] = 0
        /\ call[c].afflvl = 0 /\ call[c].state = PSCI_STATE_ON
        /\ call[c].mpidr = 258 /\ call[c].sec_entrypoint = 2
        /\ trace[c] = << Ev("sun50i_set_secondary_entry", 2, 2), Ev("sun50i_cpu_power_up", 1, 2) >>

\* v with the IRQ bit (bit 1) set.
WithIrqBit(v) == IF (v \div 2) % 2 = 1 THEN v ELSE v + 2

\* C17: whenever a core is blocked in the wfi of the standby handler,
\* SCR_EL3 holds the value read on entry with the IRQ bit set; the write of
\* that value and the dsb precede the wfi, and the register has not been
\* written back yet.
C17_StandbyWaitsWithIrq ==
    \A c \in Cores :
        call[c].op = "standby" =>
            LET t == trace[c] IN
            /\ (pc[c] = "sb_wfi" =>
                   /\ Len(t) = 5
                   /\ t[1].ev = "read_scr_el3"
                   /\ t[2] = Ev("write_scr_el3", WithIrqBit(t[1].a), 0)
                   /\ t[3].ev = "isb" /\ t[4].ev = "dsb" /\ t[5].ev = "wfi"
                   /\ scr_el3[c] = WithIrqBit(t[1].a))
            /\ (Count(t, "write_scr_el3") = 2 => \E w \in WakeCauses : Has(t, w))
            /\ (Has(t, "wfi") =>
                   /\ Pos(t, "write_scr_el3") = 2
                   /\ Pos(t, "dsb") = Pos(t, "wfi") - 1)

\* C17 witness: the core is blocked in wfi, entered with SCR_EL3 = 0x431.
C17_Witness ==
    \E c \in Cores :
        /\ call[c].op = "standby" /\ pc[c] = "sb_wfi"
        /\ trace[c][1].a = 1073 /\ scr_el3[c] = 1075

\* C16: the ops table is never available to a caller while the console
\* lock is uninitialised, and no console operation of the handlers (console
\* shutdown in Suspend, console re-initialisation in the Suspend Finisher)
\* happens before platform_setup_pm has initialised the lock.
C16_LockBeforeOps ==
    /\ (plat_ops = "sunxi_ops" => plat_console_lock = "init")
    /\ \A c \in Cores :
           (Has(trace[c], "console_exit") \/ Has(trace[c], "console_init")) =>
               plat_console_lock = "init"

\* C18: when the Suspend of a suspend/resume cycle shut the console down,
\* the Suspend Finisher invoked with the same address, level, state and
\* framework-reported levels has re-initialised it when it returns: the
\* console is up at the end of the cycle.
C18_ConsoleRestored ==
    \A c \in Cores :
        (call[c].op = "suspend_finish" /\ pc[c] = "done" /\ Has(trace[c], "console_exit")) =>
            /\ Has(trace[c], "console_init")
            /\ console_up

\* C19: over a cycle with the same level, state and framework-reported
\* levels, the finisher sets up the core's GIC CPU interface
\* (arm_gic_cpuif_setup) if and only if Off/Suspend deactivated it; the
\* finisher passes the gate's assertions that Off/Suspend passed, and the
\* interface is enabled again when a finisher returns after a power-down.
C19_PowerDownResumePaired ==
    \A c \in Cores :
        call[c].op \in {"on_finish", "suspend_finish"} =>
            LET t == trace[c] IN
            /\ pc[c] # "assert_failed"
            /\ (Has(t, "arm_gic_cpuif_setup") => Has(t, "arm_gic_cpuif_deactivate"))
            /\ (Has(t, "arm_gic_cpuif_setup") =>
                   Pos(t, "arm_gic_cpuif_deactivate") < Pos(t, "arm_gic_cpuif_setup"))
            /\ (pc[c] = "done" =>
                   /\ (Has(t, "arm_gic_cpuif_deactivate") <=> Has(t, "arm_gic_cpuif_setup"))
                   /\ (Has(t, "sun50i_cpu_power_down") <=> Has(t, "arm_gic_pcpu_distif_setup"))
                   /\ (Has(t, "arm_gic_cpuif_deactivate") => gicc_enabled[c]))

\* C19 witness: Off powered the core down and On-Finish set the interface
\* up again.
C19_Witness ==
    \E c \in Cores :
        /\ call[c].op = "on_finish" /\ pc[c] = "done"
        /\ Has(trace[c], "arm_gic_cpuif_deactivate")
        /\ Has(trace[c], "arm_gic_cpuif_setup")
        /\ gicc_enabled[c]

\* The calls of the system-wide reinitialisation, in order.
GlobalReinitSteps ==
    << Ev("arm_gic_init", 0, 0), Ev("arm_gic_setup", 0, 0), Ev("console_init", 0, 0) >>

\* C20 as stated: a Suspend Finisher invocation that performed the
\* system-wide reinitialisation has performed the per-core resume steps when
\* it returns, for every state and framework-reported levels.
C20_RebuildThenPerCore ==
    \A c \in Cores :
        (call[c].op = "suspend_finish" /\ pc[c] = "done" /\ Has(trace[c], "arm_gic_init")) =>
            \A i \in 1 .. 3 : Has(trace[c], PerCoreSteps[i].ev)

\* C20 amended: a Suspend Finisher invocation that performed the system-wide
\* reinitialisation goes on to consult the gate; when it returns it has
\* performed the per-core resume steps, after the reinitialisation and in
\* order, if and only if the state is OFF and the call's level equals the
\* maximum-physical-off level (the gate said act now); otherwise it returns
\* PSCI_E_SUCCESS with no per-core step.
C20_RebuildThenGate ==
    \A c \in Cores :
        (call[c].op = "suspend_finish" /\ pc[c] = "done" /\ Has(trace[c], "arm_gic_init")) =>
            /\ gate[c].called
            /\ ret[c] = 0
            /\ IF call[c].state = PSCI_STATE_OFF /\ call[c].afflvl = fw[c].max_phys_off_afflvl
               THEN trace[c] = GlobalReinitSteps \o PerCoreSteps
               ELSE trace[c] = GlobalReinitSteps

\* C20 witness: the reinitialisation was performed, the gate deferred (state
\* ON) and the finisher returned without a per-core step.
C20_Witness ==
    \E c \in Cores :
        /\ call[c].op = "suspend_finish" /\ pc[c] = "done" /\ ret[c] = 0
        /\ call[c].state = PSCI_STATE_ON
        /\ gate[c].called /\ gate[c].rc = -11
        /\ trace[c] = GlobalReinitSteps

=============================================================================
